---- MODULE Spec2Model ----
(***************************************************************************)
(* The game launcher of src/emulator.py: the selection wheel (WheelUI),    *)
(* the main loop (PygameEmulator.run), the pin poller (GPIOInputBridge)    *)
(* and the power-button monitor (PowerButtonMonitor).                      *)
(*                                                                         *)
(* Angles are Python floats in the source.  Here a float is an integer     *)
(* count of 2^-FracBits, rounded after every arithmetic operation to       *)
(* MantBits significant bits (round half to even), so that rounding, and   *)
(* what Python's float % does with it, is part of the model.               *)
(***************************************************************************)
EXTENDS Integers, Sequences, FiniteSets, TLC

\* ------------------------------------------------------------------ bounds
FracBits == 8
MantBits == 12
MaxItems == 4
MaxKeys == 3
ConvergeFrames == 33
MaxGames == 2
MaxInputs == 3
MaxTicks == 4
MaxTime == 2
MaxPumped == 1
MaxEdges == 6

\* ------------------------------------------------------- float arithmetic
Unit == 2^FracBits

Abs(x) == IF x < 0 THEN -x ELSE x

RECURSIVE BitLen(_)
BitLen(x) == IF x = 0 THEN 0 ELSE 1 + BitLen(x \div 2)

\* The float nearest to num/den (den > 0): MantBits significant bits, ties to even.
RoundRat(num, den) ==
    LET a == Abs(num)
        len == BitLen(a \div den)
        q == IF len > MantBits THEN 2^(len - MantBits) ELSE 1
        dq == den * q
        k == a \div dq
        r == a % dq
        up == (2 * r > dq) \/ (2 * r = dq /\ k % 2 = 1)
        v == (IF up THEN k + 1 ELSE k) * q
    IN IF num < 0 THEN -v ELSE v

Fl(x) == RoundRat(x, 1)

\* A float constant num/den (0 < num/den < 1) as <<m, e>>, value m / 2^e.
RECURSIVE ConstExp(_, _, _)
ConstExp(num, den, e) ==
    IF num * 2^e >= den * 2^(MantBits - 1) THEN e ELSE ConstExp(num, den, e + 1)

FloatConst(num, den) ==
    LET e == ConstExp(num, den, 0)
        n2 == num * 2^e
        k == n2 \div den
        r == n2 % den
    IN <<IF 2 * r > den \/ (2 * r = den /\ k % 2 = 1) THEN k + 1 ELSE k, e>>

\* float * float constant
MulConst(x, c) == RoundRat(x * c[1], 2^(c[2]))

\* C's fmod: the remainder has the sign of x, and is exact.
Fmod(x, m) == IF x >= 0 THEN x % m ELSE -((-x) % m)

\* Python's float x % m for m > 0: fmod, then a float addition of m to a
\* negative remainder.
PyFloatMod(x, m) ==
    LET r == Fmod(x, m)
    IN IF r < 0 THEN Fl(r + m) ELSE r

\* Python's int x % n for n > 0: the result has the sign of n.
PyIntMod(x, n) ==
    LET r == Fmod(x, n)
    IN IF r < 0 THEN r + n ELSE r

Deg(d) == d * Unit

\* ------------------------------------------------------------------ state
VARIABLES
    num_items,        \* WheelUI.num_items = len(PygameEmulator.games)
    angle_increment,  \* WheelUI.angle_increment (float)
    target_index,     \* WheelUI.target_index
    target_angle,     \* WheelUI.target_angle (float)
    master_index,     \* WheelUI.master_index
    master_angle,     \* WheelUI.master_angle (float)
    selected_index,   \* PygameEmulator.selected_index
    frames,           \* history: update() calls since target_angle last changed
    keys,             \* history: left/right key-downs handled so far
    has_gpio,         \* whether RPi.GPIO was imported (GPIO is not None)
    startup,          \* PygameEmulator.startup
    background,       \* PygameEmulator.background
    pc,               \* where PygameEmulator.run() is
    child,            \* catalog index of the running child process, -1 if none
    gpio_event_queue, \* PygameEmulator.gpio_event_queue (queue.Queue)
    pg_queue,         \* pygame's event queue: the events posted and not yet read
    events,           \* the rest of the list `for event in pygame.event.get()` walks
    pin_states,       \* GPIOInputBridge.pin_states, TRUE is high
    b_running,        \* GPIOInputBridge.running
    b_pc,             \* where GPIOInputBridge.run() is
    gpio_ready,       \* the pins are set up (until GPIO.cleanup())
    m_running,        \* PowerButtonMonitor.running
    m_pc,             \* where PowerButtonMonitor.run() is
    detect,           \* the falling-edge callback is registered
    last_time,        \* PowerButtonMonitor.last_time
    now,              \* time.time() at the latest edge the monitor alone was given, in 0.1 s
    puts,             \* history: the number of events put into gpio_event_queue
    handled,          \* history: the hardware events the for loop has taken, by number
    ticks,            \* history: the ticks completed
    tick_log,         \* history: the steps of the current tick, in order
    frame_list,       \* history: the list the last pygame.event.get() returned
    drained,          \* history: the events got from gpio_event_queue in this tick
    inputs,           \* history: inputs so far (pin changes, button edges, native events)
    put_in_child      \* history: the events put while a child ran in this tick or the
                      \* one before, each with the tick of its put, until cleanup()

wheel_vars == <<num_items, angle_increment, target_index, target_angle,
                master_index, master_angle, selected_index>>

loop_vars == <<has_gpio, startup, background, pc, child, pg_queue, events>>

bridge_vars == <<pin_states, b_running, b_pc, gpio_ready>>

monitor_vars == <<m_running, m_pc, detect, last_time, now>>

history_vars == <<puts, handled, ticks, tick_log, frame_list, drained, inputs,
                  put_in_child>>

launcher_vars == <<loop_vars, gpio_event_queue, bridge_vars, monitor_vars, history_vars>>

vars == <<wheel_vars, frames, keys, launcher_vars>>

\* ------------------------------------------------------------------ WheelUI
\* a step of 1.5 times the remaining angle
Closure_overshoot == FloatConst(3, 2)

\* 0.15, the share of the remaining angle covered per frame
Closure == FloatConst(15, 100)

\* the snap threshold of update(): 1 degree
SnapThreshold == Deg(1)

FullTurn == Deg(360)

HalfTurn == Deg(180)

\* math.pi (355/113 agrees with pi beyond the model's precision), 2 * math.pi
Pi == RoundRat(355 * Unit, 113)

TwoPi == 2 * Pi

\* math.radians(x) = x * (pi / 180)
radians(x) == MulConst(x, FloatConst(355, 113 * 180))

\* WheelUI.__init__: angle_increment = 360 / num_items if num_items > 0 else 0
init_angle_increment(n) == IF n > 0 THEN RoundRat(FullTurn, n) ELSE 0

\* WheelUI.__init__: item_angle = math.radians(angle_increment * index + 90)
item_angle(inc, index) == radians(Fl(Fl(inc * index) + Deg(90)))

\* WheelUI.__init__: bottom_angle = math.radians(90)
bottom_angle == radians(Deg(90))

\* target_angle %= 180
normalize_target_half(ta) == PyFloatMod(ta, HalfTurn)

\* update(): target_angle %= 360
normalize_target(ta) == PyFloatMod(ta, FullTurn)

\* update(): angle_diff, remapped into (-180, 180]
angle_diff(ta, ma) ==
    LET d == PyFloatMod(Fl(ta - ma), FullTurn)
    IN IF d > HalfTurn THEN Fl(d - FullTurn) ELSE d

\* the interpolation step without the snap
step_master_no_snap(ta, ma) == Fl(ma + MulConst(angle_diff(ta, ma), Closure))

\* update(): the interpolation step or the snap, before normalisation
step_master(ta, ma) ==
    LET d == angle_diff(ta, ma)
    IN IF Abs(d) > SnapThreshold THEN Fl(ma + MulConst(d, Closure)) ELSE ta

\* update(): master_angle %= 360
normalize_master(ma) == PyFloatMod(ma, FullTurn)

\* WheelUI.update()
update ==
    /\ master_index' = target_index
    /\ target_angle' = normalize_target(target_angle)
    /\ master_angle' = normalize_master(step_master(normalize_target(target_angle),
                                                    master_angle))

bottom_diff_no_wrap(inc, index, ma) ==
    LET a == PyFloatMod(Fl(item_angle(inc, index) + radians(ma)), TwoPi)
    IN Abs(Fl(a - bottom_angle))

\* get_bottom_item(): the distance of one item to the bottom position
bottom_diff(inc, index, ma) ==
    LET a == PyFloatMod(Fl(item_angle(inc, index) + radians(ma)), TwoPi)
        diff == Abs(Fl(a - bottom_angle))
    IN IF diff > Pi THEN Fl(TwoPi - diff) ELSE diff

\* get_bottom_item(): the scan over wheel_item_group in insertion order; a
\* later item replaces the closest one only when strictly closer.  -1 is None.
RECURSIVE closest_from(_, _, _, _, _, _)
closest_from(inc, n, ma, index, closest, min_diff) ==
    IF index >= n THEN closest
    ELSE LET diff == bottom_diff(inc, index, ma)
         IN IF closest = -1 \/ diff < min_diff
            THEN closest_from(inc, n, ma, index + 1, index, diff)
            ELSE closest_from(inc, n, ma, index + 1, closest, min_diff)

get_bottom_item(inc, n, ma) == closest_from(inc, n, ma, 0, -1, 0)

\* WheelItem.draw(): what the item of this index does to its size: zoom_in(2)
\* for the bottom item when |master_angle - target_angle| < 6, nothing for the
\* bottom item otherwise, zoom_out() for every other item
zoom_of(inc, n, ma, ta, index) ==
    IF get_bottom_item(inc, n, ma) = index
    THEN IF Abs(Fl(ma - ta)) < Deg(6) THEN "in" ELSE "none"
    ELSE "out"

\* the selection without the reflection
selection_plain(n, index) == PyIntMod(index, n)

\* draw_menu(): selected_index = abs(len(games) - 1 - master_index) + 1,
\* then selected_index %= len(games)
selection(n, index) == PyIntMod(Abs(n - 1 - index) + 1, n)

\* the index moved with a remainder that keeps the sign of the dividend
move_index_trunc(index, by, n) == Fmod(index + by, n)

\* run(): K_LEFT and K_RIGHT move target_index by -1 and +1 modulo num_items
move_index(index, by, n) == PyIntMod(index + by, n)

\* run(): target_angle = angle_increment * target_index
angle_of(inc, index) == Fl(inc * index)

set_target(by) ==
    /\ target_index' = move_index(target_index, by, num_items)
    /\ target_angle' = angle_of(angle_increment, move_index(target_index, by, num_items))

\* draw_menu(): the wheel update and the selection
menu_update ==
    /\ update
    /\ selected_index' = selection(num_items, master_index')


\* ------------------------------------------------------------ input events
\* gpio_key_map, in the order the dict is walked
PinOrder == <<17, 18, 27, 22, 23, 24>>

Pins == {PinOrder[i] : i \in DOMAIN PinOrder}

key_of(pin) ==
    CASE pin = 17 -> "UP"
      [] pin = 18 -> "DOWN"
      [] pin = 27 -> "LEFT"
      [] pin = 22 -> "RIGHT"
      [] pin = 23 -> "RETURN"
      [] pin = 24 -> "ESCAPE"

\* debounce_time = 0.2 s, in units of 0.1 s
DebounceTime == 2

\* a hardware event; id is its number in the order of the puts
HwEvent(type, key, id) == [type |-> type, key |-> key, src |-> "hw", id |-> id]

NativeEvent(type, key) == [type |-> type, key |-> key, src |-> "native", id |-> 0]

\* the buttons pressed and released here: left, confirm and cancel
Buttons == {22, 23}

\* what the keyboard and the window send here: the right key, the window close
NativeKinds == {<<"KEYDOWN", "ESCAPE">>, <<"QUIT", "NONE">>}

OfSource(list, src) == SelectSeq(list, LAMBDA e : e.src = src)

\* queue.Queue.put(): appends, atomically
put(q, e) == Append(q, e)

queue_empty_never(q) == FALSE

\* queue.Queue.empty()
queue_empty(q) == q = <<>>

post_lost(q, e) == q

\* pygame.event.post(): appends to pygame's queue
post(q, e) == Append(q, e)

event_list_native_first(posted, pumped) == pumped \o posted

\* pygame.event.get(): the events posted so far, then the native events pumped now
event_list(posted, pumped) == posted \o pumped

first_step_drain == "empty"

\* run(): the step that follows clock.tick(60) at the top of `while True`
first_step == "draw"

\* ------------------------------------------------------------- construction
\* PygameEmulator.__init__ and the thread constructors
LauncherStart(hw) ==
    /\ has_gpio = hw
    /\ startup = TRUE
    /\ background = FALSE
    /\ pc = first_step
    /\ child = -1
    /\ gpio_event_queue = <<>>
    /\ pg_queue = <<>>
    /\ events = <<>>
    /\ pin_states = [p \in Pins |-> TRUE]
    /\ b_running = TRUE
    /\ b_pc = "check"
    /\ gpio_ready = hw
    /\ m_running = TRUE
    /\ m_pc = "run"
    /\ detect = hw
    /\ last_time = 0
    /\ now = DebounceTime
    /\ puts = 0
    /\ handled = <<>>
    /\ ticks = 0
    /\ tick_log = <<>>
    /\ frame_list = <<>>
    /\ drained = <<>>
    /\ inputs = 0
    /\ put_in_child = {}

Init ==
    /\ num_items \in 0..MaxGames
    /\ angle_increment = init_angle_increment(num_items)
    /\ target_index = 0
    /\ target_angle = 0
    /\ master_index = 0
    /\ master_angle = 0
    /\ selected_index = 0
    /\ frames = 0
    /\ keys = 0
    /\ \E hw \in BOOLEAN : LauncherStart(hw)

\* the process is running: its threads and its inputs can act
Alive == pc \notin {"exited", "crashed"}

\* ---------------------------------------------------- PygameEmulator.run()
\* draw_start(): the splash.  Its timers are left out: the splash ends after
\* some number of frames.
DrawStart ==
    /\ pc = "draw"
    /\ startup
    /\ startup' \in BOOLEAN
    /\ pc' = "empty"
    /\ tick_log' = Append(tick_log, "splash")
    /\ UNCHANGED <<wheel_vars, frames, keys, has_gpio, background, child, pg_queue, events,
                   gpio_event_queue, bridge_vars, monitor_vars, puts, put_in_child, handled, ticks,
                   frame_list, drained, inputs>>

DrawMenu_during_child ==
    /\ pc \in {"draw", "child"}
    /\ ~startup
    /\ update
    /\ IF num_items = 0
       THEN /\ pc' = "crashed"
            /\ UNCHANGED selected_index
       ELSE /\ pc' = IF pc = "child" THEN "child" ELSE "render"
            /\ selected_index' = selection(num_items, master_index')
    /\ tick_log' = Append(tick_log, "update")
    /\ UNCHANGED <<num_items, angle_increment, target_index, frames, keys, has_gpio, startup,
                   background, child, pg_queue, events, gpio_event_queue, bridge_vars,
                   monitor_vars, puts, put_in_child, handled, ticks, frame_list, drained, inputs>>

\* draw_menu() up to the selection: wheel.update(), then selected_index, whose
\* `%= len(self.games)` raises ZeroDivisionError with no games
DrawMenu ==
    /\ pc = "draw"
    /\ ~startup
    /\ update
    /\ IF num_items = 0
       THEN /\ pc' = "crashed"
            /\ UNCHANGED selected_index
       ELSE /\ pc' = "render"
            /\ selected_index' = selection(num_items, master_index')
    /\ tick_log' = Append(tick_log, "update")
    /\ UNCHANGED <<num_items, angle_increment, target_index, frames, keys, has_gpio, startup,
                   background, child, pg_queue, events, gpio_event_queue, bridge_vars,
                   monitor_vars, puts, put_in_child, handled, ticks, frame_list, drained, inputs>>

\* draw_menu() from render_wheel() to the flip, then background = False
Render ==
    /\ pc = "render"
    /\ pc' = "empty"
    /\ background' = FALSE
    /\ tick_log' = Append(tick_log, "render")
    /\ UNCHANGED <<wheel_vars, frames, keys, has_gpio, startup, child, pg_queue, events,
                   gpio_event_queue, bridge_vars, monitor_vars, puts, put_in_child, handled, ticks,
                   frame_list, drained, inputs>>

\* while not self.gpio_event_queue.empty()
QueueCheck ==
    /\ pc = "empty"
    /\ IF queue_empty(gpio_event_queue)
       THEN /\ pc' = "events"
            /\ tick_log' = Append(tick_log, "drain")
       ELSE /\ pc' = "get"
            /\ UNCHANGED tick_log
    /\ UNCHANGED <<wheel_vars, frames, keys, has_gpio, startup, background, child, pg_queue,
                   events, gpio_event_queue, bridge_vars, monitor_vars, puts, put_in_child, handled, ticks,
                   frame_list, drained, inputs>>

\* event = self.gpio_event_queue.get(), which waits while the queue is empty,
\* then pygame.event.post(event)
QueueGet ==
    /\ pc = "get"
    /\ gpio_event_queue # <<>>
    /\ gpio_event_queue' = Tail(gpio_event_queue)
    /\ pg_queue' = post(pg_queue, Head(gpio_event_queue))
    /\ drained' = Append(drained, Head(gpio_event_queue))
    /\ pc' = "empty"
    /\ UNCHANGED <<wheel_vars, frames, keys, has_gpio, startup, background, child, events,
                   bridge_vars, monitor_vars, puts, put_in_child, handled, ticks, tick_log, frame_list,
                   inputs>>

\* the native events one pygame.event.get() can pump: any kinds, in any order
NativeSeqs(most) == UNION {[1..n -> NativeKinds] : n \in 0..(IF most < MaxPumped THEN most ELSE MaxPumped)}

\* pygame.event.get(): pumps the keyboard and window events that arrived since
\* the last call and returns pygame's whole queue
EventGet ==
    /\ pc = "events"
    /\ \E kinds \in NativeSeqs(MaxInputs - inputs) :
          LET pumped == [i \in DOMAIN kinds |->
                            NativeEvent(kinds[i][1], kinds[i][2])]
          IN /\ events' = event_list(pg_queue, pumped)
             /\ frame_list' = event_list(pg_queue, pumped)
             /\ inputs' = inputs + Len(kinds)
    /\ pg_queue' = <<>>
    /\ tick_log' = Append(tick_log, "events")
    /\ pc' = "handle"
    /\ UNCHANGED <<wheel_vars, frames, keys, has_gpio, startup, background, child,
                   gpio_event_queue, bridge_vars, monitor_vars, puts, put_in_child, handled, ticks, drained>>

\* the for loop takes its next event
Take ==
    /\ events' = Tail(events)
    /\ handled' = IF Head(events).src = "hw" THEN Append(handled, Head(events).id)
                  ELSE handled

\* the for loop is over: back to the top of `while True`, where clock.tick(60)
\* begins the next tick
EndOfEvents ==
    /\ pc = "handle"
    /\ events = <<>>
    /\ ticks < MaxTicks
    /\ ticks' = ticks + 1
    /\ pc' = first_step
    /\ tick_log' = <<>>
    /\ frame_list' = <<>>
    /\ drained' = <<>>
    /\ put_in_child' = {d \in put_in_child : d[2] = ticks}
    /\ UNCHANGED <<wheel_vars, frames, keys, has_gpio, startup, background, child, pg_queue,
                   events, gpio_event_queue, bridge_vars, monitor_vars, puts, handled,
                   inputs>>

\* event.type == pygame.QUIT: cleanup(), pygame.quit(), sys.exit()
HandleQuit ==
    /\ pc = "handle"
    /\ events # <<>>
    /\ Head(events).type = "QUIT"
    /\ Take
    /\ pc' = "stop_bridge"
    /\ UNCHANGED <<wheel_vars, frames, keys, has_gpio, startup, background, child, pg_queue,
                   gpio_event_queue, bridge_vars, monitor_vars, puts, put_in_child, ticks, tick_log,
                   frame_list, drained, inputs>>

\* KEYDOWN during the splash: the timers are cut short; K_ESCAPE then quits
HandleStartupKey ==
    /\ pc = "handle"
    /\ events # <<>>
    /\ Head(events).type = "KEYDOWN"
    /\ startup
    /\ Take
    /\ pc' = IF Head(events).key = "ESCAPE" THEN "stop_bridge" ELSE "handle"
    /\ UNCHANGED <<wheel_vars, frames, keys, has_gpio, startup, background, child, pg_queue,
                   gpio_event_queue, bridge_vars, monitor_vars, puts, put_in_child, ticks, tick_log,
                   frame_list, drained, inputs>>

HandleMove_snaps ==
    /\ pc = "handle"
    /\ events # <<>>
    /\ Head(events).type = "KEYDOWN"
    /\ Head(events).key \in {"LEFT", "RIGHT"}
    /\ ~startup
    /\ Take
    /\ IF num_items = 0
       THEN /\ pc' = "crashed"
            /\ UNCHANGED <<target_index, target_angle, master_angle>>
       ELSE /\ pc' = "handle"
            /\ set_target(IF Head(events).key = "LEFT" THEN -1 ELSE 1)
            /\ master_angle' = target_angle'
    /\ UNCHANGED <<num_items, angle_increment, master_index, selected_index,
                   frames, keys, has_gpio, startup, background, child, pg_queue,
                   gpio_event_queue, bridge_vars, monitor_vars, puts, put_in_child, ticks, tick_log,
                   frame_list, drained, inputs>>

\* KEYDOWN K_LEFT or K_RIGHT in the menu; `% self.wheel.num_items` raises
\* ZeroDivisionError with no games
HandleMove ==
    /\ pc = "handle"
    /\ events # <<>>
    /\ Head(events).type = "KEYDOWN"
    /\ Head(events).key \in {"LEFT", "RIGHT"}
    /\ ~startup
    /\ Take
    /\ IF num_items = 0
       THEN /\ pc' = "crashed"
            /\ UNCHANGED <<target_index, target_angle>>
       ELSE /\ pc' = "handle"
            /\ set_target(IF Head(events).key = "LEFT" THEN -1 ELSE 1)
    /\ UNCHANGED <<num_items, angle_increment, master_index, master_angle, selected_index,
                   frames, keys, has_gpio, startup, background, child, pg_queue,
                   gpio_event_queue, bridge_vars, monitor_vars, puts, put_in_child, ticks, tick_log,
                   frame_list, drained, inputs>>

\* KEYDOWN K_RETURN in the menu: run_game(self.games[self.selected_index]);
\* the index raises IndexError with no games.  subprocess.Popen either starts
\* the child or raises, which run_game() catches.
HandleReturn ==
    /\ pc = "handle"
    /\ events # <<>>
    /\ Head(events).type = "KEYDOWN"
    /\ Head(events).key = "RETURN"
    /\ ~startup
    /\ Take
    /\ IF selected_index >= num_items
       THEN /\ pc' = "crashed"
            /\ UNCHANGED <<child, background>>
       ELSE /\ background' = TRUE
            /\ \/ /\ pc' = "child"
                  /\ child' = selected_index
               \/ /\ pc' = "handle"
                  /\ UNCHANGED child
    /\ UNCHANGED <<wheel_vars, frames, keys, has_gpio, startup, pg_queue, gpio_event_queue,
                   bridge_vars, monitor_vars, puts, put_in_child, ticks, tick_log, frame_list, drained,
                   inputs>>

ChildExit_flushes ==
    /\ pc = "child"
    /\ pc' = "handle"
    /\ child' = -1
    /\ background' = TRUE
    /\ gpio_event_queue' = <<>>
    /\ UNCHANGED <<wheel_vars, frames, keys, has_gpio, startup, pg_queue, events,
                   bridge_vars, monitor_vars, history_vars>>

\* proc.communicate() returns: the child has exited; background = True
ChildExit ==
    /\ pc = "child"
    /\ pc' = "handle"
    /\ child' = -1
    /\ background' = TRUE
    /\ UNCHANGED <<wheel_vars, frames, keys, has_gpio, startup, pg_queue, events,
                   gpio_event_queue, bridge_vars, monitor_vars, history_vars>>

\* KEYDOWN K_ESCAPE in the menu: cleanup(), pygame.quit(), sys.exit()
HandleEscape ==
    /\ pc = "handle"
    /\ events # <<>>
    /\ Head(events).type = "KEYDOWN"
    /\ Head(events).key = "ESCAPE"
    /\ ~startup
    /\ Take
    /\ pc' = "stop_bridge"
    /\ UNCHANGED <<wheel_vars, frames, keys, has_gpio, startup, background, child, pg_queue,
                   gpio_event_queue, bridge_vars, monitor_vars, puts, put_in_child, ticks, tick_log,
                   frame_list, drained, inputs>>

\* every other event: KEYUP, and KEYDOWN of K_UP or K_DOWN in the menu
HandleOther ==
    /\ pc = "handle"
    /\ events # <<>>
    /\ \/ Head(events).type = "KEYUP"
       \/ /\ Head(events).type = "KEYDOWN"
          /\ Head(events).key \in {"UP", "DOWN"}
          /\ ~startup
    /\ Take
    /\ UNCHANGED <<wheel_vars, frames, keys, has_gpio, startup, background, pc, child,
                   pg_queue, gpio_event_queue, bridge_vars, monitor_vars, puts, put_in_child, ticks, tick_log,
                   frame_list, drained, inputs>>

\* KeyboardInterrupt: the except branch runs cleanup().  cleanup() does not
\* read where the loop was, so the interrupt is taken at the top of a tick or
\* while a child runs.
Interrupt ==
    /\ pc \in {"draw", "child"}
    /\ pc' = "stop_bridge"
    /\ child' = -1
    /\ UNCHANGED <<wheel_vars, frames, keys, has_gpio, startup, background, pg_queue, events,
                   gpio_event_queue, bridge_vars, monitor_vars, history_vars>>

\* ------------------------------------------------- PygameEmulator.cleanup()
\* input_bridge.stop(): running = False, then GPIO.cleanup(), which releases
\* the pins and the edge detection
StopBridge ==
    /\ pc = "stop_bridge"
    /\ b_running' = FALSE
    /\ gpio_ready' = FALSE
    /\ detect' = FALSE
    /\ pc' = "stop_monitor"
    /\ put_in_child' = {}
    /\ UNCHANGED <<wheel_vars, frames, keys, has_gpio, startup, background, child, pg_queue,
                   events, gpio_event_queue, pin_states, b_pc, m_running, m_pc, last_time, now,
                   puts, handled, ticks, tick_log, frame_list, drained, inputs>>

\* power_button_monitor.stop(): running = False, GPIO.remove_event_detect()
StopMonitor ==
    /\ pc = "stop_monitor"
    /\ m_running' = FALSE
    /\ detect' = FALSE
    /\ pc' = "join_bridge"
    /\ UNCHANGED <<wheel_vars, frames, keys, has_gpio, startup, background, child, pg_queue,
                   events, gpio_event_queue, bridge_vars, m_pc, last_time, now, history_vars>>

JoinBridge_no_wait ==
    /\ pc = "join_bridge"
    /\ pc' = "join_monitor"
    /\ UNCHANGED <<wheel_vars, frames, keys, has_gpio, startup, background, child, pg_queue,
                   events, gpio_event_queue, bridge_vars, monitor_vars, history_vars>>

\* input_bridge.join()
JoinBridge ==
    /\ pc = "join_bridge"
    /\ b_pc \in {"done", "dead"}
    /\ pc' = "join_monitor"
    /\ UNCHANGED <<wheel_vars, frames, keys, has_gpio, startup, background, child, pg_queue,
                   events, gpio_event_queue, bridge_vars, monitor_vars, history_vars>>

\* power_button_monitor.join(), GPIO.cleanup(), pygame.quit(), sys.exit()
JoinMonitor ==
    /\ pc = "join_monitor"
    /\ m_pc = "done"
    /\ pc' = "exited"
    /\ UNCHANGED <<wheel_vars, frames, keys, has_gpio, startup, background, child, pg_queue,
                   events, gpio_event_queue, bridge_vars, monitor_vars, history_vars>>

\* ------------------------------------------------------ GPIOInputBridge.run()
\* while self.running; without GPIO the loop only waits and tests again
BridgeCheck ==
    /\ Alive
    /\ b_pc = "check"
    /\ IF ~b_running THEN b_pc' = "done"
       ELSE IF ~has_gpio THEN b_pc' = "check"
       ELSE b_pc' = "scan"
    /\ UNCHANGED <<wheel_vars, frames, keys, loop_vars, gpio_event_queue, pin_states,
                   b_running, gpio_ready, monitor_vars, history_vars>>

\* the watched pins whose level is not the last one seen, in gpio_key_map order
changed_pins(levels, states) == SelectSeq(PinOrder, LAMBDA p : levels[p] # states[p])

scan_events_inverted(levels, states, count) ==
    LET pins == changed_pins(levels, states)
    IN [i \in DOMAIN pins |->
           HwEvent(IF levels[pins[i]] = TRUE THEN "KEYDOWN" ELSE "KEYUP",
                   key_of(pins[i]), count + i)]

\* the events one pass puts: key-down for a pin now low, key-up for a pin now high
scan_events(levels, states, count) ==
    LET pins == changed_pins(levels, states)
    IN [i \in DOMAIN pins |->
           HwEvent(IF levels[pins[i]] = FALSE THEN "KEYDOWN" ELSE "KEYUP",
                   key_of(pins[i]), count + i)]

\* the levels a pass can read: since the last pass the buttons changed as the
\* inputs still allowed
Levels(states, most) ==
    {lv \in [Pins -> BOOLEAN] :
        /\ \A p \in Pins \ Buttons : lv[p] = states[p]
        /\ Cardinality({p \in Buttons : lv[p] # states[p]}) <= most}

\* one pass of the for loop over gpio_key_map, then the 10 ms wait.
\* GPIO.input(pin) raises once the pins are released, which ends the thread.
BridgeScan ==
    /\ Alive
    /\ b_pc = "scan"
    /\ IF ~gpio_ready
       THEN /\ b_pc' = "dead"
            /\ UNCHANGED <<gpio_event_queue, puts, pin_states, inputs, put_in_child>>
       ELSE /\ b_pc' = "check"
            /\ \E levels \in Levels(pin_states, MaxInputs - inputs) :
                  LET put_now == scan_events(levels, pin_states, puts)
                  IN /\ gpio_event_queue' = gpio_event_queue \o put_now
                     /\ puts' = puts + Len(put_now)
                     /\ pin_states' = levels
                     /\ inputs' = inputs + Len(put_now)
                     /\ put_in_child' = IF pc = "child"
                                        THEN put_in_child \cup
                                             {<<put_now[i], ticks>> : i \in DOMAIN put_now}
                                        ELSE put_in_child
    /\ UNCHANGED <<wheel_vars, frames, keys, loop_vars, b_running, gpio_ready, monitor_vars,
                   handled, ticks, tick_log, frame_list, drained>>

\* ------------------------------------------------------ PowerButtonMonitor
\* run(): while self.running: time.sleep(1)
MonitorRun ==
    /\ Alive
    /\ m_pc = "run"
    /\ ~m_running
    /\ m_pc' = "done"
    /\ UNCHANGED <<wheel_vars, frames, keys, loop_vars, gpio_event_queue, bridge_vars,
                   m_running, detect, last_time, now, history_vars>>

handle_button_press_strict(current_time) ==
    IF current_time - last_time > DebounceTime
    THEN /\ gpio_event_queue' = put(gpio_event_queue, HwEvent("QUIT", "NONE", puts + 1))
         /\ puts' = puts + 1
         /\ last_time' = current_time
    ELSE UNCHANGED <<gpio_event_queue, puts, last_time>>

\* _handle_button_press(): the callback of a falling edge at current_time
handle_button_press(current_time) ==
    IF current_time - last_time >= DebounceTime
    THEN /\ gpio_event_queue' = put(gpio_event_queue, HwEvent("QUIT", "NONE", puts + 1))
         /\ puts' = puts + 1
         /\ last_time' = current_time
    ELSE UNCHANGED <<gpio_event_queue, puts, last_time>>

\* time.time() at an edge: not before the last press that was taken, and at
\* the first edge far more than debounce_time after 0
Clock(last) == (IF last = 0 THEN DebounceTime ELSE last)..(last + MaxTime)

\* the power button goes low
PressPower ==
    /\ Alive
    /\ detect
    /\ inputs < MaxInputs
    /\ inputs' = inputs + 1
    /\ \E current_time \in Clock(last_time) : handle_button_press(current_time)
    /\ put_in_child' = IF pc = "child" /\ puts' # puts
                       THEN put_in_child \cup {<<HwEvent("QUIT", "NONE", puts'), ticks>>}
                       ELSE put_in_child
    /\ UNCHANGED <<wheel_vars, frames, keys, loop_vars, bridge_vars, m_running, m_pc, detect,
                   now, handled, ticks, tick_log, frame_list, drained>>

Next ==
    \/ DrawStart \/ DrawMenu \/ Render
    \/ QueueCheck \/ QueueGet \/ EventGet \/ EndOfEvents
    \/ HandleQuit \/ HandleStartupKey \/ HandleMove \/ HandleReturn \/ HandleEscape
    \/ HandleOther \/ ChildExit \/ Interrupt
    \/ StopBridge \/ StopMonitor \/ JoinBridge \/ JoinMonitor
    \/ BridgeCheck \/ BridgeScan \/ MonitorRun
    \/ PressPower

Spec == Init /\ [][Next]_vars

\* the steps of cleanup()
Cleanup == StopBridge \/ StopMonitor \/ JoinBridge \/ JoinMonitor

\* the launcher with one game: cleanup() and the threads read nothing of the
\* wheel
FairInit == Init /\ num_items = 1

\* the scheduler lets cleanup() and each thread take its next step: a thread
\* that is not waiting runs again
FairSpec ==
    /\ FairInit
    /\ [][Next]_vars
    /\ WF_vars(Cleanup)
    /\ WF_vars(BridgeCheck \/ BridgeScan)
    /\ WF_vars(MonitorRun)

\* the steps of the main thread inside `while True`
MainLoop ==
    \/ DrawStart \/ DrawMenu \/ Render
    \/ QueueCheck \/ QueueGet \/ EventGet \/ EndOfEvents
    \/ HandleQuit \/ HandleStartupKey \/ HandleMove \/ HandleReturn \/ HandleEscape
    \/ HandleOther

\* the launcher with no game or one
FairLoopInit == Init /\ num_items < MaxGames

\* the main loop keeps being scheduled too, and a child that runs exits
FairLoopSpec ==
    /\ FairLoopInit
    /\ [][Next]_vars
    /\ WF_vars(MainLoop)
    /\ WF_vars(ChildExit)
    /\ WF_vars(Cleanup)
    /\ WF_vars(BridgeCheck \/ BridgeScan)
    /\ WF_vars(MonitorRun)

\* ------------------------------------------- the wheel under keys and frames
WheelInit ==
    /\ num_items \in 1..MaxItems
    /\ angle_increment = init_angle_increment(num_items)
    /\ target_index = 0
    /\ target_angle = 0
    /\ master_index = 0
    /\ master_angle = 0
    /\ selected_index = 0
    /\ frames = 0
    /\ keys = 0
    /\ LauncherStart(FALSE)

WheelKey(by) ==
    /\ keys < MaxKeys
    /\ set_target(by)
    /\ keys' = keys + 1
    /\ frames' = IF target_angle' = target_angle THEN frames ELSE 0
    /\ UNCHANGED <<num_items, angle_increment, master_index, master_angle, selected_index>>
    /\ UNCHANGED launcher_vars

WheelLeft == WheelKey(-1)

WheelRight == WheelKey(1)

WheelFrame ==
    /\ menu_update
    /\ frames' = IF master_angle = target_angle THEN frames ELSE frames + 1
    /\ UNCHANGED <<num_items, angle_increment, target_index, keys>>
    /\ UNCHANGED launcher_vars

WheelNext == WheelLeft \/ WheelRight \/ WheelFrame

SpecWheel == WheelInit /\ [][WheelNext]_vars

\* ------------------------------------------------ the wheel at any angle
\* the angles a float can hold, from 0 to 360 degrees
Angles == {x \in 0..FullTurn : Fl(x) = x}

\* the wheel is put at an angle, once
PlaceWheel ==
    /\ keys = 0
    /\ keys' = 1
    /\ master_angle' \in Angles
    /\ UNCHANGED <<num_items, angle_increment, target_index, target_angle, master_index,
                   selected_index, frames>>
    /\ UNCHANGED launcher_vars

PlaceNext == PlaceWheel

SpecPlace == WheelInit /\ [][PlaceNext]_vars

\* ------------------------------------------- the monitor under edges alone
MonitorInit ==
    /\ num_items = 1
    /\ angle_increment = init_angle_increment(num_items)
    /\ target_index = 0
    /\ target_angle = 0
    /\ master_index = 0
    /\ master_angle = 0
    /\ selected_index = 0
    /\ frames = 0
    /\ keys = 0
    /\ LauncherStart(TRUE)

\* a falling edge of the power button, `elapsed` after the edge before it
MonitorEdge ==
    /\ detect
    /\ inputs < MaxEdges
    /\ inputs' = inputs + 1
    /\ \E elapsed \in 0..MaxTime :
          /\ now' = now + elapsed
          /\ handle_button_press(now + elapsed)
    /\ UNCHANGED <<wheel_vars, frames, keys, loop_vars, bridge_vars, m_running, m_pc, detect,
                   handled, ticks, tick_log, frame_list, drained, put_in_child>>

MonitorNext == MonitorEdge

SpecMonitor == MonitorInit /\ [][MonitorNext]_vars

\* ------------------------------------------- the poller under levels alone
BridgeInit ==
    /\ num_items = 1
    /\ angle_increment = init_angle_increment(num_items)
    /\ target_index = 0
    /\ target_angle = 0
    /\ master_index = 0
    /\ master_angle = 0
    /\ selected_index = 0
    /\ frames = 0
    /\ keys = 0
    /\ LauncherStart(TRUE)

\* the levels a pass can read when every watched pin is wired to a button
AnyLevels(states, most) ==
    {lv \in [Pins -> BOOLEAN] : Cardinality({p \in Pins : lv[p] # states[p]}) <= most}

BridgePoll_forgets ==
    /\ b_pc = "scan"
    /\ gpio_ready
    /\ b_pc' = "check"
    /\ \E levels \in AnyLevels(pin_states, MaxInputs - inputs) :
          LET put_now == scan_events(levels, pin_states, puts)
          IN /\ gpio_event_queue' = gpio_event_queue \o put_now
             /\ puts' = puts + Len(put_now)
             /\ pin_states' = pin_states
             /\ inputs' = inputs + Len(put_now)
    /\ UNCHANGED <<wheel_vars, frames, keys, loop_vars, b_running, gpio_ready, monitor_vars,
                   handled, ticks, tick_log, frame_list, drained, put_in_child>>

\* one pass of the for loop over gpio_key_map, every pin free to change
BridgePoll ==
    /\ b_pc = "scan"
    /\ gpio_ready
    /\ b_pc' = "check"
    /\ \E levels \in AnyLevels(pin_states, MaxInputs - inputs) :
          LET put_now == scan_events(levels, pin_states, puts)
          IN /\ gpio_event_queue' = gpio_event_queue \o put_now
             /\ puts' = puts + Len(put_now)
             /\ pin_states' = levels
             /\ inputs' = inputs + Len(put_now)
    /\ UNCHANGED <<wheel_vars, frames, keys, loop_vars, b_running, gpio_ready, monitor_vars,
                   handled, ticks, tick_log, frame_list, drained, put_in_child>>

BridgeNext == BridgeCheck \/ BridgePoll

SpecBridge == BridgeInit /\ [][BridgeNext]_vars

\* ------------------------------------------------------ claims on the wheel
\* C1: with the target unchanged, at most ConvergeFrames calls of update()
\* bring master_angle to target_angle exactly, whatever angle the wheel was
\* at, and an update() of a converged wheel leaves it converged.
C1_Converges ==
    /\ [](frames >= ConvergeFrames => master_angle = target_angle)
    /\ [][(master_angle = target_angle /\ target_angle' = target_angle)
            => master_angle' = target_angle']_vars

\* the worst case: the wheel needed all ConvergeFrames updates
C1_Witness ==
    /\ frames = ConvergeFrames
    /\ master_angle = target_angle
    /\ target_angle = HalfTurn

\* C2: while the target is unchanged, a step never turns the signed remaining
\* angle to the other sign and never makes it larger.
C2_NoOvershoot ==
    [][target_angle' = target_angle =>
        LET d == angle_diff(target_angle, master_angle)
            e == angle_diff(target_angle', master_angle')
        IN /\ Abs(e) <= Abs(d)
           /\ e = 0 \/ (e > 0) = (d > 0)]_vars

\* the wheel is turning backwards, several updates after the key
C2_Witness ==
    /\ frames > 2
    /\ angle_diff(target_angle, master_angle) < -SnapThreshold

\* C3: master_angle lies in [0, 360) in every reachable state.
C3_Normalized == master_angle >= 0 /\ master_angle < FullTurn

\* C4: target_index stays in [0, num_items); a left key-down at 0 wraps to
\* num_items - 1 and a right key-down at num_items - 1 wraps to 0.
C4_IndexWraps ==
    /\ [](target_index \in 0..(num_items - 1))
    /\ [][/\ WheelLeft => target_index' = IF target_index = 0 THEN num_items - 1
                                           ELSE target_index - 1
          /\ WheelRight => target_index' = IF target_index = num_items - 1 THEN 0
                                            ELSE target_index + 1]_vars

\* a left key-down at index 0 has wrapped to the last index
C4_Witness == keys = 1 /\ num_items > 2 /\ target_index = num_items - 1

\* C5: target_angle is angle_increment * target_index in every reachable state.
C5_TargetConsistent == target_angle = angle_of(angle_increment, target_index)

\* update() has normalised a target angle beyond the half turn
C5_Witness == frames > 0 /\ master_index = target_index /\ target_angle > HalfTurn

\* C6: at rest the item closest to the bottom is the item the index formula
\* selects, and the one draw_menu() has stored.
C6_BottomAgrees ==
    master_angle = target_angle =>
        /\ get_bottom_item(angle_increment, num_items, master_angle)
             = selection(num_items, target_index)
        /\ (master_index = target_index => selected_index = selection(num_items, target_index))

\* four items, at rest on target index 1: the bottom item is item 3
C6_Witness ==
    /\ num_items = 4
    /\ target_index = 1
    /\ frames > 0
    /\ master_angle = target_angle
    /\ get_bottom_item(angle_increment, num_items, master_angle) = 3

\* ------------------------------------------------ claims on the frame loop
\* the steps of a whole tick, in the menu and during the splash
MenuOrder == <<"update", "render", "drain", "events">>

SplashOrder == <<"splash", "drain", "events">>

\* C7: within every tick the steps run in the order update, render, drain of
\* the hardware queue, read and handling of the events (splash, drain, events
\* while the splash is shown); so a key handled in a tick changes the target
\* after that tick's update and render.
C7_TickOrder ==
    /\ [](\/ tick_log = SubSeq(MenuOrder, 1, Len(tick_log))
          \/ tick_log = SubSeq(SplashOrder, 1, Len(tick_log)))
    /\ [][target_index' # target_index => tick_log \in {MenuOrder, SplashOrder}]_vars

\* a key was handled after this tick's update and render, which did not see it
C7_Witness ==
    /\ tick_log = MenuOrder
    /\ pc = "handle"
    /\ target_index # master_index

\* C7 as stated: drain and events come first in the tick, update and render
\* after them, so a handled key changes the target before the tick's update.
C7_DrainFirst ==
    /\ [](\/ tick_log = SubSeq(<<"drain", "events", "update", "render">>, 1, Len(tick_log))
          \/ tick_log = SubSeq(<<"drain", "events", "splash">>, 1, Len(tick_log)))
    /\ [][target_index' # target_index =>
            \A i \in DOMAIN tick_log : tick_log[i] \notin {"update", "render"}]_vars

\* the ids of the hardware events of a list, in the list's order
hw_ids(list) == [i \in DOMAIN OfSource(list, "hw") |-> OfSource(list, "hw")[i].id]

\* C8: every event pushed into the shared queue is, at every moment, either
\* waiting (in the shared queue, in pygame's queue, in the frame's list) or
\* consumed, exactly once and in the order of the pushes: none is lost and
\* none is taken twice, under any interleaving of the producers with the loop.
C8_ExactlyOnce ==
    handled \o hw_ids(events) \o hw_ids(pg_queue) \o hw_ids(gpio_event_queue)
        = [i \in 1..puts |-> i]

\* one event consumed, one waiting in the frame's list, one in the shared queue
C8_Witness ==
    /\ handled # <<>>
    /\ hw_ids(events) # <<>>
    /\ gpio_event_queue # <<>>

\* C8 as stated: every event pushed is consumed, also when the launcher exits
C8_AllConsumed == pc = "exited" => Len(handled) = puts

\* C9: the list handed to the event loop holds the hardware events drained in
\* this frame in the order they were put, and all of them before the native
\* events read in this frame.
C9_FrameOrder ==
    (tick_log # <<>> /\ tick_log[Len(tick_log)] = "events") =>
        /\ frame_list = drained \o OfSource(frame_list, "native")
        /\ \A i \in 1..(Len(drained) - 1) : drained[i].id < drained[i + 1].id

\* a frame with two hardware events and a native one
C9_Witness ==
    /\ tick_log # <<>>
    /\ tick_log[Len(tick_log)] = "events"
    /\ Len(drained) >= 2
    /\ OfSource(frame_list, "native") # <<>>

\* C10: the loop calls get() only on a non-empty queue, whatever the producers
\* do meanwhile, and with an empty queue it goes on to read the events.
C10_NeverBlocks ==
    /\ [](pc = "get" => gpio_event_queue # <<>>)
    /\ [][(pc = "empty" /\ pc' # pc /\ gpio_event_queue = <<>>) => pc' = "events"]_vars

\* the loop is about to call get() and both producers have put an event
C10_Witness ==
    /\ pc = "get"
    /\ \E i \in DOMAIN gpio_event_queue : gpio_event_queue[i].type = "QUIT"
    /\ \E i \in DOMAIN gpio_event_queue : gpio_event_queue[i].type = "KEYDOWN"

\* ---------------------------------------------------- claims on the threads
\* C11: an edge puts a quit event only if at least DebounceTime has passed
\* since the last edge that was taken, and then becomes the reference; any
\* other edge puts nothing and leaves last_time alone, so the queue holds at
\* most one quit event for each debounce window that has passed.
C11_Debounce ==
    /\ [][MonitorEdge =>
            IF now' - last_time >= DebounceTime
            THEN /\ Len(gpio_event_queue') = Len(gpio_event_queue) + 1
                 /\ gpio_event_queue'[Len(gpio_event_queue')].type = "QUIT"
                 /\ SubSeq(gpio_event_queue', 1, Len(gpio_event_queue)) = gpio_event_queue
                 /\ last_time' = now'
            ELSE /\ gpio_event_queue' = gpio_event_queue
                 /\ last_time' = last_time]_vars
    /\ [](Len(gpio_event_queue) * DebounceTime <= now)

\* two edges 0.1 s apart: one quit event, and last_time is the first edge
C11_Witness ==
    /\ inputs = 2
    /\ Len(gpio_event_queue) = 1
    /\ now = last_time + 1

\* the events a step has added to the shared queue
put_by_step == SubSeq(gpio_event_queue', Len(gpio_event_queue) + 1, Len(gpio_event_queue'))

\* C12: in a pass, each watched pin whose level is not the last one seen gets
\* exactly one event with its key, key-down when the level is low and key-up
\* when it is high, and the level becomes the last one seen; a pin whose
\* level is the same gets no event.
C12_OneEventPerChange ==
    [][BridgePoll =>
        /\ SubSeq(gpio_event_queue', 1, Len(gpio_event_queue)) = gpio_event_queue
        /\ \A p \in Pins :
              LET mine == SelectSeq(put_by_step, LAMBDA e : e.key = key_of(p))
              IN IF pin_states'[p] # pin_states[p]
                 THEN /\ Len(mine) = 1
                      /\ mine[1].type = IF pin_states'[p] THEN "KEYUP" ELSE "KEYDOWN"
                 ELSE mine = <<>>
        /\ \A i \in DOMAIN put_by_step : \E p \in Pins : put_by_step[i].key = key_of(p)]_vars

\* pin 17 went low in one pass; in the next it went high and pin 24 went low
C12_Witness ==
    /\ Len(gpio_event_queue) = 3
    /\ gpio_event_queue[1] = HwEvent("KEYDOWN", "UP", 1)
    /\ gpio_event_queue[2] = HwEvent("KEYUP", "UP", 2)
    /\ gpio_event_queue[3] = HwEvent("KEYDOWN", "ESCAPE", 3)
    /\ pin_states[17] /\ ~pin_states[24]

\* ------------------------------------------------- claims on the launcher
\* C13: with no games the launcher never fails inside the per-frame update or
\* the key handling: no step divides or takes a remainder by zero.
C13_EmptyCatalogGuarded == num_items = 0 => pc # "crashed"

\* C14: from the step that starts a child until the step after it returns,
\* target_index, target_angle, master_angle and selected_index keep their
\* values, whatever the poller and the monitor do meanwhile.
C14_ChildLeavesWheel ==
    [][(pc = "child" \/ pc' = "child") =>
          UNCHANGED <<target_index, target_angle, master_index, master_angle,
                      selected_index>>]_vars

\* a child runs while the wheel is still turning and an event waits in the queue
C14_Witness ==
    /\ pc = "child"
    /\ master_angle # target_angle
    /\ gpio_event_queue # <<>>

\* C15: when the process has exited, both running flags are cleared and both
\* threads have ended; and once cleanup() has begun, on whichever path, its
\* joins return and the process exits.
C15_JoinedBeforeExit ==
    /\ [](pc = "exited" =>
            /\ ~b_running /\ ~m_running
            /\ b_pc \in {"done", "dead"}
            /\ m_pc = "done")
    /\ (pc = "stop_bridge" ~> pc = "exited")

\* exited with the pins wired, the poller having left its loop by the flag
C15_Witness ==
    /\ pc = "exited"
    /\ has_gpio
    /\ b_pc = "done"
    /\ m_pc = "done"
    /\ gpio_event_queue # <<>>

\* C16: for every item and every angle of the wheel, the distance to the
\* bottom position that get_bottom_item() compares lies in [0, pi].
C16_DistanceWithinPi ==
    \A index \in 0..(num_items - 1) :
        /\ bottom_diff(angle_increment, index, master_angle) >= 0
        /\ bottom_diff(angle_increment, index, master_angle) <= Pi

\* the item at 270 degrees with the wheel at 45: 225 degrees from the bottom
\* the long way, 135 the short way
C16_Witness ==
    /\ keys = 1
    /\ num_items = 4
    /\ master_angle = Deg(45)
    /\ bottom_diff(angle_increment, 2, master_angle) > bottom_angle
    /\ bottom_diff(angle_increment, 2, master_angle) <= Pi

\* C17: the entry a confirm launches is the one the reflection formula gives
\* for the target_index of that moment, also when a left or right key was
\* handled earlier in the same frame's list.
C17_LaunchesTarget == pc = "child" => child = selection(num_items, target_index)

\* C18: when an item is drawn, it zooms in if it is the bottom item and the
\* wheel is within 6 degrees of its target, measured around the circle, and
\* it zooms out in every other case.
C18_ZoomRule ==
    frames > 0 =>
        \A index \in 0..(num_items - 1) :
            zoom_of(angle_increment, num_items, master_angle, target_angle, index)
                = IF /\ get_bottom_item(angle_increment, num_items, master_angle) = index
                     /\ Abs(angle_diff(target_angle, master_angle)) < Deg(6)
                  THEN "in" ELSE "out"

\* C19: handling a left, right or confirm key leaves master_angle as it is and
\* update() leaves target_index as it is; only the key handling changes
\* target_index and only update() changes master_angle.
C19_WhoWritesWhat ==
    [][/\ (HandleMove \/ HandleReturn \/ ChildExit) => master_angle' = master_angle
       /\ DrawMenu => target_index' = target_index
       /\ target_index' # target_index => HandleMove
       /\ master_angle' # master_angle => DrawMenu]_vars

\* a key was handled while the wheel was turning
C19_Witness ==
    /\ pc = "handle"
    /\ target_index # master_index
    /\ master_angle # 0
    /\ master_angle # target_angle

\* C20: the events the poller has put for one pin alternate between key-down
\* and key-up and begin with key-down, whatever levels the passes read.
C20_Alternates ==
    \A p \in Pins :
        LET mine == SelectSeq(gpio_event_queue, LAMBDA e : e.key = key_of(p))
        IN \A i \in DOMAIN mine :
              mine[i].type = IF i % 2 = 1 THEN "KEYDOWN" ELSE "KEYUP"

\* the button on pin 22 was pressed, released and pressed again
C20_Witness ==
    /\ Len(gpio_event_queue) = 3
    /\ \A i \in 1..3 : gpio_event_queue[i].key = key_of(22)
    /\ gpio_event_queue[3].type = "KEYDOWN"
    /\ ~pin_states[22]

\* ------------------------------------------------------ claims on shutdown
\* C21: the poller reads no pin after stop() has released the pins, however
\* stop() falls between the steps of a pass of run().
C21_NoReadAfterRelease == b_pc # "dead"

\* the monitor's quit event waits in the shared queue
quit_queued == \E i \in DOMAIN gpio_event_queue : gpio_event_queue[i].type = "QUIT"

\* C22: once a press of the power button has been taken, the launcher shuts
\* down: cleanup() runs and the process exits (a press in the last tick the
\* bound allows is left out).
C22_PressShutsDown == (quit_queued /\ ticks < MaxTicks) ~> pc = "exited"

\* ------------------------------------------- claims on input during a child
\* the numbers in a list of event numbers
numbers(list) == {list[i] : i \in DOMAIN list}

\* the events put while a child ran that are in a list, in the list's order
of_child(list) == SelectSeq(list, LAMBDA e : \E d \in put_in_child : d[1] = e)

\* C23: an event put while a child runs stays in the shared queue for the
\* rest of that tick; the drain of the next tick moves it on, and by the end
\* of the next tick the for loop has taken it; such events are taken in the
\* order of their puts, and a left or right key-down among them moves the
\* target when it is taken.  All of this as long as the launcher has not gone
\* into cleanup() before it reaches the event.
C23_HeldThenReplayed ==
    /\ [](\A d \in put_in_child :
            /\ d[2] = ticks => d[1].id \in numbers(hw_ids(gpio_event_queue))
            /\ (d[2] < ticks /\ "drain" \in numbers(tick_log)) =>
                  d[1].id \in numbers(handled \o hw_ids(events) \o hw_ids(pg_queue))
            /\ (d[2] < ticks /\ pc = "handle" /\ events = <<>>) =>
                  d[1].id \in numbers(handled))
    /\ [](LET waiting == hw_ids(of_child(events \o pg_queue \o gpio_event_queue))
          IN \A i \in 1..(Len(waiting) - 1) : waiting[i] < waiting[i + 1])
    /\ [][(/\ events # <<>>
            /\ handled' # handled
            /\ of_child(<<Head(events)>>) # <<>>
            /\ Head(events).type = "KEYDOWN"
            /\ Head(events).key \in {"LEFT", "RIGHT"}) =>
              target_index' = move_index(target_index,
                                         IF Head(events).key = "LEFT" THEN -1 ELSE 1,
                                         num_items)]_vars

\* RETURN started a child, RIGHT went down while it ran, and after the child
\* the for loop took the RIGHT and moved the target
C23_Witness ==
    /\ puts = 2
    /\ \E d \in put_in_child :
          /\ d[1].type = "KEYDOWN"
          /\ d[1].key = "RIGHT"
          /\ d[1].id \in numbers(handled)
    /\ target_index = 1
    /\ pc = "handle"

\* C23 as stated: every event put while a child ran is taken by the for loop
\* once the child has exited and the loop has gone on to its next tick, also
\* when the launcher goes into cleanup() in that tick
C23_AllReplayed ==
    pc = "stop_bridge" => \A d \in put_in_child : d[2] < ticks => d[1].id \in numbers(handled)

====
